---- MODULE Spec2Model ----
(***************************************************************************)
(* Model of quick-resume-gen: the Flask pipeline of app.py (generate,      *)
(* download, the file-based session store), the job-info extractor, the    *)
(* tailoring requestor get_structured_resume and the context assembler     *)
(* load_resume of generate_resume.py.                                      *)
(*                                                                         *)
(* JSON values are records [type, items] (leaves) or [type, items, fields] *)
(* (objects); a text is a sequence of tokens, so that the regular          *)
(* expression search and json.loads are computed on the text itself.       *)
(***************************************************************************)
EXTENDS Integers, Sequences, FiniteSets, TLC

\* ------------------------------------------------------------------------
\* JSON values (what json.loads produces, what json.dump stores)
\* ------------------------------------------------------------------------
Str(s) ==
    [type |-> "string", items |-> <<s>>]

Arr(seq) ==
    [type |-> "array", items |-> seq]

Num(s) ==
    [type |-> "number", items |-> <<s>>]

Bool(s) ==
    [type |-> "bool", items |-> <<s>>]

\* Python None and JSON null are the same value
None ==
    [type |-> "null", items |-> << >>]

Dict(f) ==
    [type |-> "dict", items |-> << >>, fields |-> f]

EmptyFields ==
    [k \in {} |-> None]

\* Python truthiness of a JSON value (`if data:`, `if not resume_data:`)
Truthy(v) ==
    CASE v.type = "dict"   -> DOMAIN v.fields # {}
      [] v.type = "array"  -> v.items # << >>
      [] v.type = "string" -> v.items[1] # ""
      [] v.type = "number" -> v.items[1] # "0"
      [] v.type = "bool"   -> v.items[1] = "true"
      [] OTHER             -> FALSE

\* data[key] = value on a dict
SetItem(d, key, value) ==
    Dict([k \in (DOMAIN d.fields) \cup {key} |->
            IF k = key THEN value ELSE d.fields[k]])

\* ------------------------------------------------------------------------
\* Texts: sequences of tokens
\* ------------------------------------------------------------------------
Tk(s) ==
    [t |-> s, key |-> "", val |-> None]

Pair(k, v) ==
    [t |-> "pair", key |-> k, val |-> v]

Atom(v) ==
    [t |-> "atom", key |-> "", val |-> v]

LB == Tk("{")
RB == Tk("}")
Comma == Tk(",")
Prose == Tk("prose")

SubText(s, i, j) ==
    [n \in 1..(j - i + 1) |-> s[n + i - 1]]

\* "k": v , "k": v , ... (members of a JSON object)
IsPairList(s) ==
    /\ Len(s) % 2 = 1
    /\ \A i \in 1..Len(s) :
          IF i % 2 = 1 THEN s[i].t = "pair" ELSE s[i].t = ","

\* the object a member list denotes; a repeated key keeps its last value
PairFields(s) ==
    LET keys == {s[i].key : i \in {n \in 1..Len(s) : s[n].t = "pair"}}
        last(k) == CHOOSE i \in 1..Len(s) :
                      /\ s[i].t = "pair" /\ s[i].key = k
                      /\ \A j \in 1..Len(s) :
                            (s[j].t = "pair" /\ s[j].key = k) => j <= i
    IN  [k \in keys |-> s[last(k)].val]

\* json.loads(text): [ok, value]; ok = FALSE is json.JSONDecodeError
json_loads(text) ==
    LET n == Len(text)
    IN  IF n = 1 /\ text[1].t = "atom"
        THEN [ok |-> TRUE, value |-> text[1].val]
        ELSE IF n = 2 /\ text[1].t = "{" /\ text[2].t = "}"
        THEN [ok |-> TRUE, value |-> Dict(EmptyFields)]
        ELSE IF n > 2 /\ text[1].t = "{" /\ text[n].t = "}"
                /\ IsPairList(SubText(text, 2, n - 1))
        THEN [ok |-> TRUE, value |-> Dict(PairFields(SubText(text, 2, n - 1)))]
        ELSE [ok |-> FALSE, value |-> None]

\* mutant: a lazy match '\{.*?\}', from the leftmost '{' to the first '}'
\* behind it
re_search_lazy(text) ==
    LET opens  == {i \in 1..Len(text) : text[i].t = "{"}
        first  == CHOOSE i \in opens : \A j \in opens : i <= j
        closes == {i \in 1..Len(text) : text[i].t = "}" /\ i > first}
        stop   == CHOOSE i \in closes : \A j \in closes : i <= j
    IN  IF opens # {} /\ closes # {}
        THEN [found |-> TRUE, group |-> SubText(text, first, stop)]
        ELSE [found |-> FALSE, group |-> << >>]

\* re.search(r'\{.*\}', text, re.DOTALL): leftmost '{', then greedily to the
\* last '}' behind it; [found, group]
re_search(text) ==
    LET opens  == {i \in 1..Len(text) : text[i].t = "{"}
        closes == {i \in 1..Len(text) : text[i].t = "}"}
        first  == CHOOSE i \in opens : \A j \in opens : i <= j
        last   == CHOOSE i \in closes : \A j \in closes : j <= i
    IN  IF opens # {} /\ closes # {} /\ first < last
        THEN [found |-> TRUE, group |-> SubText(text, first, last)]
        ELSE [found |-> FALSE, group |-> << >>]

\* ------------------------------------------------------------------------
\* The LLM backend: what one HTTP call to it can do
\* ------------------------------------------------------------------------
Providers ==
    {"cerebras", "groq", "openrouter"}

\* net:  "ok" | "conn_error" (transport failure) | "no_response" (never answers)
\* body: "non_json" | "error_obj" | "no_choices" | "empty_choices"
\*       | "null_content" | "content";  text: the message content
Outcome(net, status, body, text) ==
    [net |-> net, status |-> status, body |-> body, text |-> text]

USER_PROFILE ==
    [name     |-> "Muhammad Kasim Naina Mohammed",
     email    |-> "mohammedmazhermd@gmail.com",
     phone    |-> "(510) 771-4493",
     linkedin |-> "https://www.linkedin.com/in/muhammad-kasim-0b297416/",
     location |-> "San Jose, CA"]

\* app.py: a provider is usable when its key is in the environment or it has
\* a default key; cerebras carries DEFAULT_CEREBRAS_KEY
app_default_key(p) ==
    p = "cerebras"

app_get_llm_config(env) ==
    [raised |-> ~ \E p \in Providers : p \in env \/ app_default_key(p)]

\* app.py call_llm: [raised, exc, isNone, text]
call_llm(env, o) ==
    LET fail(e) == [raised |-> TRUE, exc |-> e, isNone |-> FALSE, text |-> << >>]
    IN  IF app_get_llm_config(env).raised THEN fail("ValueError")
        ELSE IF o.net = "conn_error" THEN fail("ConnectionError")
        ELSE IF o.net = "no_response" THEN fail("Timeout")
        ELSE IF o.status >= 400 THEN fail("HTTPError")
        ELSE IF o.body = "non_json" THEN fail("JSONDecodeError")
        ELSE IF o.body \in {"error_obj", "no_choices"} THEN fail("KeyError")
        ELSE IF o.body = "empty_choices" THEN fail("IndexError")
        ELSE IF o.body = "null_content"
        THEN [raised |-> FALSE, exc |-> "", isNone |-> TRUE, text |-> << >>]
        ELSE [raised |-> FALSE, exc |-> "", isNone |-> FALSE, text |-> o.text]

FallbackJobInfo ==
    Dict([job_title  |-> Str("Software Engineer"),
          company    |-> Str("Company"),
          location   |-> Str("Remote"),
          job_type   |-> Str("hybrid"),
          key_skills |-> Arr(<< >>)])

\* app.py extract_job_info: [raised, exc, value]
extract_job_info(env, o) ==
    LET result == call_llm(env, o)
        match  == re_search(result.text)
        parsed == json_loads(match.group)
    IN  IF result.raised
        THEN [raised |-> TRUE, exc |-> result.exc, value |-> None]
        ELSE IF ~result.isNone /\ match.found /\ parsed.ok
        THEN [raised |-> FALSE, exc |-> "", value |-> parsed.value]
        ELSE [raised |-> FALSE, exc |-> "", value |-> FallbackJobInfo]

\* generate_resume.py get_llm_config: every default_key is "", so a provider
\* is usable only when its key is in the environment
gen_get_llm_config(env) ==
    [raised |-> ~ \E p \in Providers : p \in env]

\* `'skills' in data` raises TypeError on a value that is not a container
SupportsIn(v) ==
    v.type \in {"dict", "array", "string"}

\* generate_resume.py get_structured_resume:
\* [raised, exc, hangs, value, calls]; calls = number of requests.post made,
\* hangs = the post never returns (it is made without a timeout)
get_structured_resume(env, o) ==
    LET res(r, e, h, v, c) ==
            [raised |-> r, exc |-> e, hangs |-> h, value |-> v, calls |-> c]
        parsed == json_loads(o.text)
    IN  IF gen_get_llm_config(env).raised THEN res(FALSE, "", FALSE, None, 0)
        ELSE IF o.net = "conn_error" THEN res(TRUE, "ConnectionError", FALSE, None, 1)
        ELSE IF o.net = "no_response" THEN res(FALSE, "", TRUE, None, 1)
        ELSE IF o.body = "non_json" THEN res(TRUE, "JSONDecodeError", FALSE, None, 1)
        ELSE IF o.body = "error_obj" THEN res(FALSE, "", FALSE, None, 1)
        ELSE IF o.body = "no_choices" THEN res(FALSE, "", FALSE, None, 1)
        ELSE IF o.body = "empty_choices" THEN res(TRUE, "IndexError", FALSE, None, 1)
        ELSE IF o.body = "null_content" THEN res(TRUE, "TypeError", FALSE, None, 1)
        ELSE IF ~parsed.ok THEN res(FALSE, "", FALSE, None, 1)
        ELSE IF ~SupportsIn(parsed.value) THEN res(TRUE, "TypeError", FALSE, None, 1)
        ELSE res(FALSE, "", FALSE, parsed.value, 1)

\* mutant: the email assignment is missing
OverrideContact_NoEmail(data) ==
    SetItem(SetItem(SetItem(SetItem(data,
        "name", Str(USER_PROFILE.name)),
        "phone", Str(USER_PROFILE.phone)),
        "linkedin", Str(USER_PROFILE.linkedin)),
        "location", Str(USER_PROFILE.location))

\* the five assignments data['name'] = USER_PROFILE['name'], ...
OverrideContact(data) ==
    SetItem(SetItem(SetItem(SetItem(SetItem(data,
        "name", Str(USER_PROFILE.name)),
        "email", Str(USER_PROFILE.email)),
        "phone", Str(USER_PROFILE.phone)),
        "linkedin", Str(USER_PROFILE.linkedin)),
        "location", Str(USER_PROFILE.location))

\* app.py generate_resume_data: [hangs, value, calls]; every exception of the
\* body is caught and turned into None; item assignment on a value that is
\* not a dict is a TypeError
generate_resume_data(env, o) ==
    LET r == get_structured_resume(env, o)
    IN  [hangs |-> r.hangs,
         calls |-> r.calls,
         value |-> IF r.raised \/ r.hangs THEN None
                   ELSE IF ~Truthy(r.value) THEN None
                   ELSE IF r.value.type # "dict" THEN None
                   ELSE OverrideContact(r.value)]

\* ', '.join(job_info.get('key_skills', [])) raises TypeError when the
\* value is not iterable
JoinRaises(job_info) ==
    /\ "key_skills" \in DOMAIN job_info.fields
    /\ job_info.fields["key_skills"].type \notin {"array", "string"}

\* mutant: a failed email call is issued a second time
generate_response_email_Retry(env, job_info, o) ==
    LET r == call_llm(env, o)
    IN  IF JoinRaises(job_info)
        THEN [raised |-> TRUE, exc |-> "TypeError", isNone |-> FALSE,
              text |-> << >>, calls |-> 0]
        ELSE [raised |-> r.raised, exc |-> r.exc, isNone |-> r.isNone,
              text |-> r.text, calls |-> IF r.raised THEN 2 ELSE 1]

\* app.py generate_response_email: builds the prompt, then call_llm;
\* [raised, exc, isNone, text, calls]
generate_response_email(env, job_info, o) ==
    LET r == call_llm(env, o)
    IN  IF JoinRaises(job_info)
        THEN [raised |-> TRUE, exc |-> "TypeError", isNone |-> FALSE,
              text |-> << >>, calls |-> 0]
        ELSE [raised |-> r.raised, exc |-> r.exc, isNone |-> r.isNone,
              text |-> r.text, calls |-> 1]

\* ------------------------------------------------------------------------
\* The session store (output/last_session.json) and the download handler
\* ------------------------------------------------------------------------
NoData ==
    [resume |-> None, job_info |-> None, jd |-> ""]

\* state: "absent" (no file) | "truncated" (opened with 'w', content not yet
\* written) | "mixed" (bytes of two writers) | "complete" (one json.dump)
AbsentFile ==
    [state |-> "absent", data |-> NoData]

TruncatedFile ==
    [state |-> "truncated", data |-> NoData]

MixedFile ==
    [state |-> "mixed", data |-> NoData]

CompleteFile(d) ==
    [state |-> "complete", data |-> d]

\* an HTTP response of the application
Response(status, body, error, doc) ==
    [status |-> status, body |-> body, error |-> error, doc |-> doc]

NoResponse ==
    Response(0, "", "", None)

\* app.py generate_pdf / generate_docx behind the download route: the
\* document rendered from the stored resume
app_render(resume_data, format_type) ==
    [type |-> "document", items |-> <<format_type>>, of |-> resume_data]

\* app.py load_session: [raised, session]; {} when the file does not exist,
\* json.load raises on a file that is not one complete JSON document
load_session(file) ==
    IF file.state = "absent" THEN [raised |-> FALSE, session |-> NoData]
    ELSE IF file.state = "complete" THEN [raised |-> FALSE, session |-> file.data]
    ELSE [raised |-> TRUE, session |-> NoData]

\* mutant: only the existence of a session is checked, not its resume
download_resume_SessionOnly(file, format_type) ==
    LET loaded      == load_session(file)
        resume_data == loaded.session.resume
    IN  IF loaded.raised
        THEN Response(500, "error", "JSONDecodeError", None)
        ELSE IF file.state = "absent"
        THEN Response(400, "error", "No resume generated yet. Please generate first!", None)
        ELSE Response(200, "document", "", app_render(resume_data, format_type))

\* app.py download_resume
download_resume(file, format_type) ==
    LET loaded      == load_session(file)
        resume_data == loaded.session.resume
    IN  IF loaded.raised
        THEN Response(500, "error", "JSONDecodeError", None)
        ELSE IF ~Truthy(resume_data)
        THEN Response(400, "error", "No resume generated yet. Please generate first!", None)
        ELSE Response(200, "document", "", app_render(resume_data, format_type))

\* ------------------------------------------------------------------------
\* The web application: workers serving generate and download requests
\* ------------------------------------------------------------------------
\* bound on the number of requests served in one behaviour
MaxRequests == 3

Workers ==
    {"w1", "w2"}

JobDescriptions ==
    {"", "Senior QA Engineer, remote"}

Formats ==
    {"pdf", "docx"}

GoodJobInfoText ==
    <<LB, Pair("job_title", Str("QA Engineer")), Comma,
          Pair("company", Str("Acme")), Comma,
          Pair("location", Str("Austin")), Comma,
          Pair("job_type", Str("remote")), Comma,
          Pair("key_skills", Arr(<<"Selenium">>)), RB>>

BadShapeJobInfoText ==
    <<LB, Pair("job_title", Str("QA Engineer")), Comma,
          Pair("key_skills", Num("5")), RB>>

\* what the LLM may do on the extraction call of a request
WebExtractOutcomes ==
    {Outcome("ok", 200, "content", GoodJobInfoText),
     Outcome("ok", 200, "content", BadShapeJobInfoText),
     Outcome("ok", 200, "content", <<Prose>>),
     Outcome("no_response", 0, "", << >>)}

LLMContactResumeText ==
    <<LB, Pair("name", Str("Full Name")), Comma,
          Pair("email", Str("muhammadkasim@gmail.com")), Comma,
          Pair("summary", Str("Tailored summary")), RB>>

NoContactResumeText ==
    <<LB, Pair("summary", Str("Other summary")), RB>>

\* what the LLM may do on the tailoring call of a request
WebTailorOutcomes ==
    {Outcome("ok", 200, "content", LLMContactResumeText),
     Outcome("ok", 200, "content", NoContactResumeText),
     Outcome("ok", 200, "content", <<Atom(Arr(<<"name">>))>>),
     Outcome("ok", 200, "content", <<Atom(Str("Full Name"))>>),
     Outcome("ok", 200, "content", <<Atom(Num("5"))>>),
     Outcome("ok", 200, "content", <<LB, RB>>),
     Outcome("ok", 200, "content", <<Prose>>),
     Outcome("ok", 401, "error_obj", << >>),
     Outcome("conn_error", 0, "", << >>),
     Outcome("no_response", 0, "", << >>)}

\* what the LLM may do on the email call of a request
WebEmailOutcomes ==
    {Outcome("ok", 200, "content", <<Prose>>),
     Outcome("ok", 500, "error_obj", << >>)}

\* the environments the service may be deployed with (API keys set)
WebEnvs ==
    {{}, {"groq"}}

VARIABLES
    ex_pc,        \* extract_job_info: "called" | "returned"
    ex_env,       \* extract_job_info: API keys in the environment
    ex_reply,     \* extract_job_info: what the LLM call does
    ex_out,       \* extract_job_info: [raised, exc, value]
    ts_pc,        \* get_structured_resume: "called" | "returned" | "hung"
    ts_env,       \* get_structured_resume: API keys in the environment
    ts_reply,     \* get_structured_resume: what the LLM call does
    ts_out,       \* get_structured_resume: [raised, exc, hangs, value, calls]
    ts_posts,     \* get_structured_resume: requests.post calls made so far
    lr_pc,        \* load_resume: position in the function
    lr_base,      \* load_resume: the resume folder ("absent" | "empty" | "present")
    lr_file,      \* load_resume: current_role.json ("absent" | "invalid" | "ok")
    lr_current,   \* load_resume: shape of each sub-section of the config
    lr_resume_content,  \* load_resume: the text assembled so far
    lr_out        \* load_resume: the returned value [isNone, text]

exVars ==
    <<ex_pc, ex_env, ex_reply, ex_out>>

tsVars ==
    <<ts_pc, ts_env, ts_reply, ts_out, ts_posts>>

lrVars ==
    <<lr_pc, lr_base, lr_file, lr_current, lr_resume_content, lr_out>>

VARIABLES
    rn_pc,        \* renderer: "called" | "returned"
    rn_renderer,  \* which of the four renderers runs
    rn_has,       \* keys present in the resume dict
    rn_job_has,   \* keys present in its experience entry
    rn_skills,    \* value of its skills category
    rn_npoints,   \* number of points of its experience entry
    rn_out        \* renderer: [raised, exc, story]

rnVars ==
    <<rn_pc, rn_renderer, rn_has, rn_job_has, rn_skills, rn_npoints, rn_out>>

VARIABLES
    env,          \* providers whose API key is in the environment
    sessionFile,  \* STORAGE_FILE
    started,      \* requests accepted so far
    pc,           \* per worker: position in the handler it is running
    kind,         \* per worker: "generate" | "download" | ""
    jd,           \* per worker: job_description of the request
    job_info,     \* per worker: result of extract_job_info
    resume_data,  \* per worker: result of generate_resume_data
    response,     \* per worker: the HTTP response of the request
    calls,        \* per worker: LLM calls issued by the request, in order
    fileAtStart,  \* per worker: sessionFile when the request began
    interfered    \* per worker: another worker wrote the store meanwhile

webVars ==
    <<env, sessionFile, started, pc, kind, jd, job_info, resume_data,
      response, calls, fileAtStart, interfered>>

fnVars ==
    <<exVars, tsVars, lrVars, rnVars>>

vars ==
    <<webVars, fnVars>>

NoOutcome ==
    Outcome("", 0, "", << >>)

\* the function-level machines at rest
ExParked ==
    /\ ex_pc = "off" /\ ex_env = {} /\ ex_reply = NoOutcome
    /\ ex_out = [raised |-> FALSE, exc |-> "", value |-> None]

TsParked ==
    /\ ts_pc = "off" /\ ts_env = {} /\ ts_reply = NoOutcome /\ ts_posts = 0
    /\ ts_out = [raised |-> FALSE, exc |-> "", hangs |-> FALSE,
                 value |-> None, calls |-> 0]

NoOverrides ==
    [current_experience |-> "absent", role_selection |-> FALSE,
     missing_experience |-> "absent", experience_restructure |-> "absent",
     date_corrections |-> "absent"]

LrParked ==
    /\ lr_pc = "off" /\ lr_base = "absent" /\ lr_file = "absent"
    /\ lr_current = NoOverrides
    /\ lr_resume_content = << >>
    /\ lr_out = [isNone |-> FALSE, text |-> << >>]

NoStory ==
    [raised |-> FALSE, exc |-> "", story |-> << >>]

RnParked ==
    /\ rn_pc = "off" /\ rn_renderer = "" /\ rn_has = {} /\ rn_job_has = {}
    /\ rn_skills = [type |-> "list", items |-> << >>]
    /\ rn_npoints = 0
    /\ rn_out = NoStory

WebRest ==
    /\ sessionFile = AbsentFile
    /\ started = 0
    /\ pc = [w \in Workers |-> "idle"]
    /\ kind = [w \in Workers |-> ""]
    /\ jd = [w \in Workers |-> ""]
    /\ job_info = [w \in Workers |-> None]
    /\ resume_data = [w \in Workers |-> None]
    /\ response = [w \in Workers |-> NoResponse]
    /\ calls = [w \in Workers |-> << >>]
    /\ fileAtStart = [w \in Workers |-> AbsentFile]
    /\ interfered = [w \in Workers |-> FALSE]

WebInit ==
    env \in WebEnvs /\ WebRest

WebParked ==
    env = {} /\ WebRest

\* the log of a request after n more LLM calls of the given step
LogCalls(log, step, n) ==
    log \o [i \in 1..n |-> step]

\* a new request reaches worker w
Begin(w, k, j) ==
    /\ pc[w] = "idle"
    /\ started < MaxRequests
    /\ started' = started + 1
    /\ kind' = [kind EXCEPT ![w] = k]
    /\ jd' = [jd EXCEPT ![w] = j]
    /\ job_info' = [job_info EXCEPT ![w] = None]
    /\ resume_data' = [resume_data EXCEPT ![w] = None]
    /\ calls' = [calls EXCEPT ![w] = << >>]
    /\ fileAtStart' = [fileAtStart EXCEPT ![w] = sessionFile]
    /\ interfered' = [interfered EXCEPT ![w] = FALSE]
    /\ UNCHANGED fnVars

\* mutant: the description is never found missing
not_job_description_Never(j) ==
    FALSE

\* generate(), lines 134-136: `not job_description`, where a missing key
\* reads as '' (data.get('job_description', ''))
not_job_description(j) ==
    j = ""

\* generate(), lines 133-137: read the input, reject a missing description
generate_start(w) ==
    \E j \in JobDescriptions :
        /\ Begin(w, "generate", j)
        /\ IF not_job_description(j)
           THEN /\ response' = [response EXCEPT ![w] =
                        Response(400, "error", "Job description required", None)]
                /\ pc' = [pc EXCEPT ![w] = "done"]
           ELSE /\ response' = [response EXCEPT ![w] = NoResponse]
                /\ pc' = [pc EXCEPT ![w] = "extract"]
        /\ UNCHANGED <<env, sessionFile>>

\* generate(), line 141: job_info = extract_job_info(job_description)
generate_extract(w) ==
    \E o \in WebExtractOutcomes :
        LET r == extract_job_info(env, o)
        IN  /\ pc[w] = "extract"
            /\ calls' = [calls EXCEPT ![w] = Append(@, "extract")]
            /\ IF r.raised
               THEN /\ response' = [response EXCEPT ![w] =
                            Response(500, "error", r.exc, None)]
                    /\ pc' = [pc EXCEPT ![w] = "done"]
                    /\ UNCHANGED job_info
               ELSE /\ job_info' = [job_info EXCEPT ![w] = r.value]
                    /\ pc' = [pc EXCEPT ![w] = "tailor"]
                    /\ UNCHANGED response
            /\ UNCHANGED <<env, sessionFile, started, kind, jd, resume_data,
                           fileAtStart, interfered, fnVars>>

\* generate(), line 144: resume_data = generate_resume_data(...); the call
\* does not return when the tailoring request is never answered.  The text
\* load_resume returns (a string or None) only goes into the prompt.
generate_tailor(w) ==
    \E o \in WebTailorOutcomes :
        LET r == generate_resume_data(env, o)
        IN  /\ pc[w] = "tailor"
            /\ calls' = [calls EXCEPT ![w] = LogCalls(@, "tailor", r.calls)]
            /\ resume_data' = [resume_data EXCEPT ![w] = r.value]
            /\ pc' = [pc EXCEPT ![w] = IF r.hangs THEN "blocked" ELSE "save_open"]
            /\ UNCHANGED <<env, sessionFile, started, kind, jd, job_info,
                           response, fileAtStart, interfered, fnVars>>

\* every other worker with a request in progress sees the store written
NoteWrite(w) ==
    interfered' = [v \in Workers |->
                     IF v # w /\ pc[v] # "idle" THEN TRUE ELSE interfered[v]]

\* save_session, line 27: open(STORAGE_FILE, 'w') truncates the file
save_session_open(w) ==
    /\ pc[w] = "save_open"
    /\ sessionFile' = TruncatedFile
    /\ pc' = [pc EXCEPT ![w] = "save_write"]
    /\ NoteWrite(w)
    /\ UNCHANGED <<env, started, kind, jd, job_info, resume_data, response,
                   calls, fileAtStart, fnVars>>

\* save_session, line 28: json.dump and close; the bytes go to offset 0 of
\* the file, over whatever another writer has put there since the truncation
save_session_write(w) ==
    LET mine == CompleteFile([resume |-> resume_data[w],
                              job_info |-> job_info[w], jd |-> jd[w]])
    IN  /\ pc[w] = "save_write"
        /\ \/ sessionFile' = mine
           \/ /\ sessionFile.state \in {"complete", "mixed"}
              /\ sessionFile # mine
              /\ sessionFile' = MixedFile
        /\ pc' = [pc EXCEPT ![w] = "email"]
        /\ NoteWrite(w)
        /\ UNCHANGED <<env, started, kind, jd, job_info, resume_data,
                       response, calls, fileAtStart, fnVars>>

\* generate(), lines 154-165: the outreach email and the response
generate_email(w) ==
    \E o \in WebEmailOutcomes :
        LET r == generate_response_email(env, job_info[w], o)
        IN  /\ pc[w] = "email"
            /\ calls' = [calls EXCEPT ![w] = LogCalls(@, "email", r.calls)]
            /\ response' = [response EXCEPT ![w] =
                    IF r.raised
                    THEN Response(500, "error", r.exc, None)
                    ELSE Response(200, "success", "", None)]
            /\ pc' = [pc EXCEPT ![w] = "done"]
            /\ UNCHANGED <<env, sessionFile, started, kind, jd, job_info,
                           resume_data, fileAtStart, interfered, fnVars>>

\* download_resume(): one read of the store, then the rendering
download(w) ==
    \E f \in Formats :
        /\ Begin(w, "download", "")
        /\ response' = [response EXCEPT ![w] = download_resume(sessionFile, f)]
        /\ pc' = [pc EXCEPT ![w] = "done"]
        /\ UNCHANGED <<env, sessionFile>>

\* the response is sent; the worker is free again and the request's locals
\* are gone
finish(w) ==
    /\ pc[w] = "done"
    /\ pc' = [pc EXCEPT ![w] = "idle"]
    /\ kind' = [kind EXCEPT ![w] = ""]
    /\ jd' = [jd EXCEPT ![w] = ""]
    /\ job_info' = [job_info EXCEPT ![w] = None]
    /\ resume_data' = [resume_data EXCEPT ![w] = None]
    /\ response' = [response EXCEPT ![w] = NoResponse]
    /\ calls' = [calls EXCEPT ![w] = << >>]
    /\ fileAtStart' = [fileAtStart EXCEPT ![w] = AbsentFile]
    /\ interfered' = [interfered EXCEPT ![w] = FALSE]
    /\ UNCHANGED <<env, sessionFile, started, fnVars>>

Init ==
    WebInit /\ ExParked /\ TsParked /\ LrParked /\ RnParked

Next ==
    \E w \in Workers :
        \/ generate_start(w)
        \/ generate_extract(w)
        \/ generate_tailor(w)
        \/ save_session_open(w)
        \/ save_session_write(w)
        \/ generate_email(w)
        \/ download(w)
        \/ finish(w)

Spec ==
    Init /\ [][Next]_vars

\* ------------------------------------------------------------------------
\* Properties of the web application
\* ------------------------------------------------------------------------
ContactKeys ==
    {"name", "email", "phone", "linkedin", "location"}

HasProfile(v) ==
    /\ v.type = "dict"
    /\ \A k \in ContactKeys :
          k \in DOMAIN v.fields /\ v.fields[k] = Str(USER_PROFILE[k])

\* C1: every non-null resume returned by generate_resume_data, and every
\* non-null resume in the session store, carries the five USER_PROFILE
\* contact values, whatever the LLM output was.
C1_ContactIdentity ==
    /\ \A w \in Workers :
          resume_data[w] # None => HasProfile(resume_data[w])
    /\ (sessionFile.state = "complete" /\ sessionFile.data.resume # None)
          => HasProfile(sessionFile.data.resume)

\* a request finished with success whose tailoring output carried the LLM's
\* own name and email ("Tailored summary" comes only with LLMContactResumeText)
\* and whose resume is the stored one
C1_Witness ==
    \E w \in Workers :
        /\ pc[w] = "done" /\ response[w].body = "success"
        /\ resume_data[w] # None
        /\ resume_data[w].fields["summary"] = Str("Tailored summary")
        /\ sessionFile = CompleteFile([resume |-> resume_data[w],
                                       job_info |-> job_info[w], jd |-> jd[w]])

\* a generate request that ended without success: its tailoring step gave
\* null or it did not answer 200
FailedGeneration(w) ==
    /\ pc[w] = "done" /\ kind[w] = "generate"
    /\ (resume_data[w] = None \/ response[w].status # 200)

\* the resume a download would find in the store
StoredResume(file) ==
    IF file.state = "complete" THEN file.data.resume ELSE None

\* C2: a generation request whose tailoring step returned null or whose
\* email step failed leaves the stored resume as it was (no other request
\* having written the store meanwhile).
C2_StoreOnlyOnSuccess ==
    \A w \in Workers :
        (FailedGeneration(w) /\ ~interfered[w])
            => StoredResume(sessionFile) = StoredResume(fileAtStart[w])

NothingGenerated(file) ==
    \/ file.state = "absent"
    \/ file.state = "complete" /\ file.data.resume = None

\* C3: a download that finds no session, or a session whose resume is null,
\* answers the 'No resume generated yet' error and renders no document.
C3_DownloadWithoutGeneration ==
    \A w \in Workers :
        (pc[w] = "done" /\ kind[w] = "download" /\ NothingGenerated(fileAtStart[w]))
            => response[w] = Response(400, "error",
                   "No resume generated yet. Please generate first!", None)

\* a download answered with the error after a generation stored a null resume
C3_Witness ==
    \E w \in Workers :
        /\ pc[w] = "done" /\ kind[w] = "download"
        /\ fileAtStart[w].state = "complete"
        /\ fileAtStart[w].data.resume = None
        /\ response[w].status = 400

\* C4: a generation request whose tailoring step failed never answers with
\* the success response (the one carrying resume_url).
C4_TailoringFailureFails ==
    \A w \in Workers :
        (pc[w] = "done" /\ kind[w] = "generate" /\ response[w].body = "success")
            => resume_data[w] # None

\* ------------------------------------------------------------------------
\* extract_job_info on its own: one invocation for every LLM reply
\* ------------------------------------------------------------------------
\* bound on the length of the LLM response texts of the extractor
MaxTextLen == 4

TextsOver(alphabet, n) ==
    UNION {[1..k -> alphabet] : k \in 0..n}

ExtractAlphabet ==
    {LB, RB, Comma, Prose,
     Pair("job_title", Str("QA Engineer")),
     Pair("job_type", Str("contract"))}

\* replies that carry no message content
FailureReplies ==
    {Outcome("conn_error", 0, "", << >>),
     Outcome("no_response", 0, "", << >>),
     Outcome("ok", 500, "error_obj", << >>),
     Outcome("ok", 200, "non_json", << >>),
     Outcome("ok", 200, "error_obj", << >>),
     Outcome("ok", 200, "no_choices", << >>),
     Outcome("ok", 200, "empty_choices", << >>),
     Outcome("ok", 200, "null_content", << >>)}

ExtractReplies ==
    {Outcome("ok", 200, "content", t) :
        t \in TextsOver(ExtractAlphabet, MaxTextLen)
              \cup {GoodJobInfoText, BadShapeJobInfoText,
                    <<Prose>> \o GoodJobInfoText \o <<Prose>>}}
    \cup FailureReplies

ExInit ==
    /\ ex_pc = "called"
    /\ ex_env \in WebEnvs
    /\ ex_reply \in ExtractReplies
    /\ ex_out = [raised |-> FALSE, exc |-> "", value |-> None]
    /\ WebParked /\ TsParked /\ LrParked /\ RnParked

\* the invocation runs to its return or to the exception that leaves it
ex_return ==
    /\ ex_pc = "called"
    /\ ex_out' = extract_job_info(ex_env, ex_reply)
    /\ ex_pc' = "returned"
    /\ UNCHANGED <<ex_env, ex_reply, webVars, tsVars, lrVars, rnVars>>

ExNext ==
    ex_return

SpecExtract ==
    ExInit /\ [][ExNext]_vars

\* the reply delivers a message content (a text or null) to the extractor
DeliversContent(o) ==
    o.net = "ok" /\ o.status < 400 /\ o.body \in {"content", "null_content"}

HasBraceMatch(text) ==
    \E i, j \in 1..Len(text) : i < j /\ text[i].t = "{" /\ text[j].t = "}"

\* from the first '{' to the last '}' of the text
GreedySpan(text) ==
    LET lo == CHOOSE i \in 1..Len(text) :
                 text[i].t = "{" /\ \A j \in 1..(i - 1) : text[j].t # "{"
        hi == CHOOSE i \in 1..Len(text) :
                 text[i].t = "}" /\ \A j \in (i + 1)..Len(text) : text[j].t # "}"
    IN  SubText(text, lo, hi)

NoParseableObject(o) ==
    \/ o.body = "null_content"
    \/ ~HasBraceMatch(o.text)
    \/ ~json_loads(GreedySpan(o.text)).ok

\* C5: when the LLM response text has no '{...}' match, or the span from its
\* first '{' to its last '}' does not parse as JSON, extract_job_info returns
\* exactly the fallback record.
C5_FallbackOnNoJSON ==
    (ex_pc = "returned" /\ DeliversContent(ex_reply) /\ NoParseableObject(ex_reply))
        => ex_out = [raised |-> FALSE, exc |-> "", value |-> FallbackJobInfo]

\* the fallback was returned for a text that holds a parseable object ('{}')
\* in front of a second one: only the greedy span fails to parse
C5_Witness ==
    /\ ex_pc = "returned"
    /\ ex_reply.body = "content"
    /\ HasBraceMatch(ex_reply.text)
    /\ \E j \in 2..(Len(ex_reply.text) - 1) :
          json_loads(SubText(ex_reply.text, 1, j)).ok
    /\ ~json_loads(GreedySpan(ex_reply.text)).ok
    /\ ex_out.value = FallbackJobInfo

\* C6: extract_job_info never raises; when its LLM call fails it returns the
\* fallback record.
C6_ExtractorNeverRaises ==
    ex_pc = "returned"
        => /\ ~ex_out.raised
           /\ ~DeliversContent(ex_reply) => ex_out.value = FallbackJobInfo

JobInfoKeys ==
    {"job_title", "company", "location", "job_type", "key_skills"}

\* the JobInfo shape of the data model
WellFormedJobInfo(v) ==
    /\ v.type = "dict"
    /\ DOMAIN v.fields = JobInfoKeys
    /\ \A k \in {"job_title", "company", "location", "job_type"} :
          v.fields[k].type = "string"
    /\ v.fields["job_type"].items[1] \in {"remote", "hybrid", "onsite"}
    /\ v.fields["key_skills"].type = "array"
    /\ Len(v.fields["key_skills"].items) <= 7

\* C7: every record extract_job_info returns is a well-formed JobInfo (valid
\* JSON of another shape is replaced by the fallback record).
C7_WellFormedJobInfo ==
    (ex_pc = "returned" /\ ~ex_out.raised) => WellFormedJobInfo(ex_out.value)

\* ------------------------------------------------------------------------
\* get_structured_resume on its own: one invocation for every LLM reply
\* ------------------------------------------------------------------------
\* bound on the length of the message contents of the tailoring call
MaxContentLen == 3

TailorAlphabet ==
    {LB, RB, Comma, Prose,
     Pair("name", Str("Full Name")),
     Pair("summary", Str("Tailored summary")),
     Atom(Num("5")), Atom(None), Atom(Arr(<<"a">>)), Atom(Str("text"))}

TailorReplies ==
    {Outcome("ok", 200, "content", t) :
        t \in TextsOver(TailorAlphabet, MaxContentLen)}
    \cup FailureReplies

TsInit ==
    /\ ts_pc = "called"
    /\ ts_env \in WebEnvs
    /\ ts_reply \in TailorReplies
    /\ ts_posts = 0
    /\ ts_out = [raised |-> FALSE, exc |-> "", hangs |-> FALSE,
                 value |-> None, calls |-> 0]
    /\ WebParked /\ ExParked /\ LrParked /\ RnParked

\* the invocation runs to its return, to the exception that leaves it, or
\* blocks in requests.post
ts_return ==
    LET r == get_structured_resume(ts_env, ts_reply)
    IN  /\ ts_pc = "called"
        /\ ts_out' = r
        /\ ts_posts' = r.calls
        /\ ts_pc' = IF r.hangs THEN "hung" ELSE "returned"
        /\ UNCHANGED <<ts_env, ts_reply, webVars, exVars, lrVars, rnVars>>

TsNext ==
    ts_return

SpecTailor ==
    TsInit /\ [][TsNext]_vars

\* the LLM call was made and came back with a decoded result
HasCallResult ==
    /\ ts_env # {}
    /\ ts_reply.net = "ok"
    /\ ts_reply.body \in {"error_obj", "content"}

\* C8: whenever the call result carries an error indicator or a content that
\* is not parseable JSON, get_structured_resume has made exactly one LLM call
\* and returns null; when the content parses it has made exactly one call and
\* returns the parsed value unchanged.
C8_OneCallNullOrParsed ==
    (ts_pc = "returned" /\ HasCallResult)
        => /\ ts_posts = 1
           /\ ~ts_out.raised
           /\ ts_out.value =
                 IF ts_reply.body = "content" /\ json_loads(ts_reply.text).ok
                 THEN json_loads(ts_reply.text).value
                 ELSE None

\* C9: get_structured_resume never raises: whatever the LLM call does, it
\* returns a parsed resume or null.
C9_TailorNeverRaises ==
    ts_pc = "returned" => ~ts_out.raised

\* ------------------------------------------------------------------------
\* load_resume (generate_resume.py): the context assembler
\* A text is a sequence of string pieces; a + b is a \o b.
\* ------------------------------------------------------------------------
Get(d, k, default) ==
    IF k \in DOMAIN d THEN d[k] ELSE default

RECURSIVE Concat(_)
Concat(texts) ==
    IF texts = << >> THEN << >> ELSE Head(texts) \o Concat(Tail(texts))

\* ', '.join(items)
RECURSIVE Join(_)
Join(items) ==
    IF items = << >> THEN << >>
    ELSE IF Len(items) = 1 THEN <<items[1]>>
    ELSE <<items[1], ", ">> \o Join(Tail(items))

\* str.upper() on the role types in use
Upper(x) ==
    CASE x = "swe" -> "SWE"
      [] x = "qe"  -> "QE"
      [] OTHER     -> x

\* the bullet glyph and the space behind it
Bullet == "(bullet) "

PointLines(points) ==
    Concat([i \in 1..Len(points) |-> <<Bullet, points[i], "\n">>])

\* the sub-sections of current_role.json in their well-formed ("present")
\* and malformed variants; a mapping is the sequence of its items in file
\* order, isDict tells whether the JSON value is an object
CurrentExperiencePresent ==
    [company |-> "Galaxy I Tech", location |-> "San Jose, CA",
     dates |-> "Jun 2025 - Present",
     clients |-> << [name |-> "Intuit", dates |-> "Jun 2025 - Present",
                     points |-> <<"Built payment services", "Cut latency 30%">>],
                    [name |-> "Apple", title |-> "SDET",
                     dates |-> "Jun 2025 - Present",
                     points |-> <<"Automated regression suite">>] >>]

\* a client without 'name'
CurrentExperienceMalformed ==
    [company |-> "Galaxy I Tech", location |-> "San Jose, CA",
     dates |-> "Jun 2025 - Present",
     clients |-> << [dates |-> "Jun 2025 - Present", points |-> << >>] >>]

MissingExperiencePresent ==
    [isDict |-> TRUE,
     items |-> << [name |-> "PayPal_SWE", isDict |-> TRUE,
                   details |-> [role_type |-> "swe", company |-> "PayPal",
                                title |-> "Software Engineer",
                                location |-> "San Jose, CA",
                                dates |-> "Mar 2020 - Aug 2021",
                                technologies |-> <<"Java", "Kafka">>,
                                points |-> <<"Built checkout APIs">>]],
                  [name |-> "Barclays", isDict |-> TRUE,
                   details |-> [title |-> "Developer",
                                dates |-> "Nov 2012 - Dec 2013",
                                points |-> <<"Migrated batch jobs", "Wrote tests">>]] >>]

\* an entry whose detail is a string instead of an object
MissingExperienceMalformed ==
    [isDict |-> TRUE,
     items |-> << [name |-> "PayPal_SWE", isDict |-> FALSE,
                   details |-> EmptyFields] >>]

ExperienceRestructurePresent ==
    [isDict |-> TRUE,
     items |-> << [name |-> "Altimetrik", isDict |-> TRUE,
                   details |-> [dates |-> "Jan 2014 - Aug 2021",
                                type |-> "Contract",
                                clients |-> <<"PayPal", "Ancestry">>,
                                coe |-> [role |-> "CoE Lead",
                                         points |-> <<"Led the Java guild">>]]],
                  [name |-> "Galaxy I Tech", isDict |-> TRUE,
                   details |-> [dates |-> "Jun 2025 - Present",
                                clients |-> <<"Intuit">>]] >>]

ExperienceRestructureMalformed ==
    [isDict |-> TRUE,
     items |-> << [name |-> "Altimetrik", isDict |-> FALSE,
                   details |-> EmptyFields] >>]

DateCorrectionsPresent ==
    [isDict |-> TRUE,
     items |-> << [name |-> "Citi", dates |-> "Oct 2024 - Jun 2025"],
                  [name |-> "Amazon", dates |-> "Sep 2022 - Oct 2023"] >>]

\* a JSON list where the mapping is expected
DateCorrectionsMalformed ==
    [isDict |-> FALSE,
     items |-> << [name |-> "Citi", dates |-> "Oct 2024 - Jun 2025"] >>]

EmptyMapping ==
    [isDict |-> TRUE, items |-> << >>]

Shapes ==
    {"absent", "empty", "present", "malformed"}

\* current.get(<sub-section>, {}) for a config of the given shape
current_experience(shape) ==
    CASE shape = "present"   -> CurrentExperiencePresent
      [] shape = "malformed" -> CurrentExperienceMalformed
      [] OTHER               -> EmptyFields

missing_experience(shape) ==
    CASE shape = "present"   -> MissingExperiencePresent
      [] shape = "malformed" -> MissingExperienceMalformed
      [] OTHER               -> EmptyMapping

experience_restructure(shape) ==
    CASE shape = "present"   -> ExperienceRestructurePresent
      [] shape = "malformed" -> ExperienceRestructureMalformed
      [] OTHER               -> EmptyMapping

date_corrections(shape) ==
    CASE shape = "present"   -> DateCorrectionsPresent
      [] shape = "malformed" -> DateCorrectionsMalformed
      [] OTHER               -> EmptyMapping

\* a rendered block, or the exception raised while rendering it
Block(text) ==
    [raised |-> FALSE, text |-> text]

Raised ==
    [raised |-> TRUE, text |-> << >>]

\* lines 94-110
ClientText(client) ==
    <<"Client: ", client["name"],
      "\nTitle: ", Get(client, "title", "Senior Software Engineer"),
      "\nDates: ", client["dates"], "\n">>
    \o PointLines(Get(client, "points", << >>))
    \o <<"\n">>

RoleSelectionGuidance ==
    <<"\nROLE SELECTION GUIDANCE:\n",
      "- For Software Engineer positions: Show ONLY the Intuit client experience AND PayPal_SWE experience\n",
      "- For QA/SDET/Test/Quality Engineer positions: Show ONLY the Apple client experience AND PayPal_QE experience\n",
      "- Include only ONE version of each company based on the job title being applied for\n",
      "- PayPal experience should show the role matching the job type (SWE or QE)\n">>

current_role_text(exp, role_selection) ==
    LET clients == Get(exp, "clients", << >>)
    IN  IF \E i \in 1..Len(clients) :
              ~ {"name", "dates"} \subseteq DOMAIN clients[i]
        THEN Raised
        ELSE Block(
            <<"\n\nCURRENT ROLE at ", Get(exp, "company", "None"),
              " (", Get(exp, "type", "Contract"), "):\n",
              "Location: ", Get(exp, "location", "None"),
              "\nDates: ", Get(exp, "dates", "None"), "\n\n">>
            \o Concat([i \in 1..Len(clients) |-> ClientText(clients[i])])
            \o (IF role_selection THEN RoleSelectionGuidance ELSE << >>))

\* lines 118-140
MissingEntryText(name, details) ==
    (IF Get(details, "role_type", "") # ""
        THEN <<"\n[USE FOR ", Upper(details["role_type"]), " ROLES]\n">>
        ELSE << >>)
    \o <<Get(details, "company", name), "\n",
         "Title: ", Get(details, "title", ""), "\n",
         "Location: ", Get(details, "location", ""), "\n",
         "Dates: ", Get(details, "dates", ""), "\n">>
    \o (IF Get(details, "technologies", << >>) # << >>
        THEN <<"Technologies: ">> \o Join(details["technologies"]) \o <<"\n">>
        ELSE << >>)
    \o <<"Achievements:\n">>
    \o PointLines(Get(details, "points", << >>))

missing_text(missing_exp) ==
    LET items == missing_exp.items
    IN  IF ~missing_exp.isDict \/ \E i \in 1..Len(items) : ~items[i].isDict
        THEN Raised
        ELSE Block(
            <<"\n\nMISSING EXPERIENCE (MUST include in resume - insert in correct chronological order):\n">>
            \o Concat([i \in 1..Len(items) |->
                          MissingEntryText(items[i].name, items[i].details)]))

\* lines 150-157
RestructureEntryText(company, details) ==
    <<"\n", company, " (", Get(details, "dates", ""), ") - ",
      Get(details, "type", ""), "\n",
      "Clients: ">> \o Join(Get(details, "clients", << >>)) \o <<"\n">>
    \o (IF "coe" \in DOMAIN details
        THEN <<"CoE Role: ", Get(details["coe"], "role", ""), "\n">>
             \o PointLines(Get(details["coe"], "points", << >>))
        ELSE << >>)

restructure_text(restructure) ==
    LET items == restructure.items
    IN  IF ~restructure.isDict \/ \E i \in 1..Len(items) : ~items[i].isDict
        THEN Raised
        ELSE Block(
            <<"\n\nEXPERIENCE RESTRUCTURE (show these as contract roles under parent company):\n">>
            \o Concat([i \in 1..Len(items) |->
                          RestructureEntryText(items[i].name, items[i].details)]))

\* lines 163-165
corrections_text(corrections) ==
    LET items == corrections.items
    IN  IF ~corrections.isDict
        THEN Raised
        ELSE Block(
            <<"\n\nDATE CORRECTIONS (use these dates instead):\n">>
            \o Concat([i \in 1..Len(items) |->
                          <<"- ", items[i].name, ": ", items[i].dates, "\n">>]))

\* resume.content of the default resume
BaseResumeText ==
    <<"MUHAMMAD KASIM\nSenior Software Engineer\n", "Citi (Oct 2024 - Jun 2025)\n">>

resume_content_of(base) ==
    IF base = "present" THEN BaseResumeText ELSE << >>

\* mutant: the block is put behind the text instead of in front of it
Prepend_Behind(block, content) ==
    content \o block

\* resume_content = <block> + resume_content (lines 112, 145, 158, 166)
Prepend(block, content) ==
    block \o content

LoadConfigs ==
    [current_experience : Shapes, role_selection : BOOLEAN,
     missing_experience : Shapes, experience_restructure : Shapes,
     date_corrections : Shapes]

LrInit ==
    /\ lr_pc = "start"
    /\ lr_base \in {"absent", "empty", "present"}
    /\ lr_file \in {"absent", "invalid", "ok"}
    /\ lr_current \in LoadConfigs
    /\ (lr_file # "ok" => lr_current = NoOverrides)
    /\ lr_resume_content = << >>
    /\ lr_out = [isNone |-> FALSE, text |-> << >>]
    /\ WebParked /\ ExParked /\ TsParked /\ RnParked

\* the except clause of load_resume: return None
LrRaise ==
    /\ lr_out' = [isNone |-> TRUE, text |-> << >>]
    /\ lr_pc' = "returned"
    /\ UNCHANGED lr_resume_content

\* one `if <sub-section>:` statement: a truthy sub-section is rendered and
\* prepended, a rendering error leaves through the except clause
LrSection(truthy, block, next) ==
    IF ~truthy
    THEN /\ lr_pc' = next
         /\ UNCHANGED <<lr_resume_content, lr_out>>
    ELSE IF block.raised
    THEN LrRaise
    ELSE /\ lr_resume_content' = Prepend(block.text, lr_resume_content)
         /\ lr_pc' = next
         /\ UNCHANGED lr_out

LrFrame ==
    UNCHANGED <<lr_base, lr_file, lr_current, webVars, exVars, tsVars,
                rnVars>>

\* lines 79-80: resume = handler.get_default_resume()
lr_get_default_resume ==
    /\ lr_pc = "start"
    /\ lr_resume_content' = resume_content_of(lr_base)
    /\ lr_pc' = "config"
    /\ UNCHANGED lr_out
    /\ LrFrame

\* lines 85-90: locate current_role.json and json.load it
lr_load_config ==
    /\ lr_pc = "config"
    /\ CASE lr_file = "absent"  -> /\ lr_pc' = "return"
                                   /\ UNCHANGED <<lr_resume_content, lr_out>>
         [] lr_file = "invalid" -> LrRaise
         [] OTHER               -> /\ lr_pc' = "current_role"
                                   /\ UNCHANGED <<lr_resume_content, lr_out>>
    /\ LrFrame

\* lines 91-112
lr_current_role ==
    LET exp == current_experience(lr_current.current_experience)
    IN  /\ lr_pc = "current_role"
        /\ LrSection(DOMAIN exp # {},
                     current_role_text(exp, lr_current.role_selection),
                     "missing")
        /\ LrFrame

\* lines 116-145
lr_missing ==
    LET missing_exp == missing_experience(lr_current.missing_experience)
    IN  /\ lr_pc = "missing"
        /\ LrSection(missing_exp.items # << >>, missing_text(missing_exp),
                     "restructure")
        /\ LrFrame

\* lines 148-158
lr_restructure ==
    LET restructure == experience_restructure(lr_current.experience_restructure)
    IN  /\ lr_pc = "restructure"
        /\ LrSection(restructure.items # << >>, restructure_text(restructure),
                     "dates")
        /\ LrFrame

\* lines 161-166
lr_date_corrections ==
    LET corrections == date_corrections(lr_current.date_corrections)
    IN  /\ lr_pc = "dates"
        /\ LrSection(corrections.items # << >>, corrections_text(corrections),
                     "return")
        /\ LrFrame

\* line 168: return resume_content
lr_return ==
    /\ lr_pc = "return"
    /\ lr_out' = [isNone |-> FALSE, text |-> lr_resume_content]
    /\ lr_pc' = "returned"
    /\ UNCHANGED lr_resume_content
    /\ LrFrame

LrNext ==
    \/ lr_get_default_resume
    \/ lr_load_config
    \/ lr_current_role
    \/ lr_missing
    \/ lr_restructure
    \/ lr_date_corrections
    \/ lr_return

SpecLoad ==
    LrInit /\ [][LrNext]_vars

\* the block a sub-section contributes to the context: its rendering when
\* the config file is there and the sub-section is present, nothing otherwise
Contribution(shape, block) ==
    IF lr_file = "ok" /\ shape = "present" THEN block.text ELSE << >>

NoMalformedSection ==
    /\ lr_current.current_experience # "malformed"
    /\ lr_current.missing_experience # "malformed"
    /\ lr_current.experience_restructure # "malformed"
    /\ lr_current.date_corrections # "malformed"

\* C10: for every subset of present sub-sections the text load_resume returns
\* is the date-corrections block, the restructure block, the
\* missing-experience block, the current-role block and the base resume, in
\* this order; an absent or empty sub-section contributes no text.
C10_AssemblyOrder ==
    (lr_pc = "returned" /\ lr_file # "invalid" /\ NoMalformedSection)
        => lr_out =
             [isNone |-> FALSE,
              text |->
                 Contribution(lr_current.date_corrections,
                              corrections_text(DateCorrectionsPresent))
                 \o Contribution(lr_current.experience_restructure,
                                 restructure_text(ExperienceRestructurePresent))
                 \o Contribution(lr_current.missing_experience,
                                 missing_text(MissingExperiencePresent))
                 \o Contribution(lr_current.current_experience,
                                 current_role_text(CurrentExperiencePresent,
                                                   lr_current.role_selection))
                 \o resume_content_of(lr_base)]

\* the four sub-sections are present and the base resume is there: the
\* returned text starts with the date corrections and ends with the resume
C10_Witness ==
    /\ lr_pc = "returned"
    /\ lr_file = "ok" /\ lr_base = "present"
    /\ lr_current.current_experience = "present"
    /\ lr_current.missing_experience = "present"
    /\ lr_current.experience_restructure = "present"
    /\ lr_current.date_corrections = "present"
    /\ ~lr_out.isNone
    /\ lr_out.text[1] = "\n\nDATE CORRECTIONS (use these dates instead):\n"
    /\ lr_out.text[Len(lr_out.text)] = BaseResumeText[Len(BaseResumeText)]

\* the override config is there but unreadable, or one of its sub-sections
\* cannot be rendered
OverrideError ==
    \/ lr_file = "invalid"
    \/ lr_file = "ok" /\ ~NoMalformedSection

\* text ends with tail
EndsWith(text, tail) ==
    /\ Len(tail) <= Len(text)
    /\ \A i \in 1..Len(tail) : text[Len(text) - Len(tail) + i] = tail[i]

\* C11: when the override config cannot be read or parsed, or a sub-section
\* of it is malformed, load_resume still returns a text, and this text ends
\* with the base resume.
C11_OverrideErrorDegrades ==
    (lr_pc = "returned" /\ OverrideError)
        => /\ ~lr_out.isNone
           /\ EndsWith(lr_out.text, resume_content_of(lr_base))

\* the result counts as empty for the caller (`if not resume`)
EmptyResult(out) ==
    out.isNone \/ out.text = << >>

\* C12: when there is no base resume, load_resume returns an empty result,
\* whatever the override config holds.
C12_NoBaseIsEmptyResult ==
    (lr_pc = "returned" /\ lr_base = "absent") => EmptyResult(lr_out)

\* ------------------------------------------------------------------------
\* Further properties of the web application
\* ------------------------------------------------------------------------
\* position of a step in the order extraction, tailoring, email
Rank(step) ==
    CASE step = "extract" -> 1
      [] step = "tailor"  -> 2
      [] OTHER            -> 3

\* every step at most once, in the order of the pipeline
OrderedOnce(log) ==
    \A i, j \in 1..Len(log) : i < j => Rank(log[i]) < Rank(log[j])

\* the extraction call of the request raised: the request answered 500
\* without a job_info
ExtractionFailed(w) ==
    /\ pc[w] = "done" /\ kind[w] = "generate"
    /\ response[w].status = 500 /\ job_info[w] = None

\* C13: a generation request issues at most three LLM calls, each at most
\* once, in the order extraction, tailoring, email; no call follows the
\* extraction call whose failure failed the request.
C13_CallsOnceInOrder ==
    \A w \in Workers :
        /\ OrderedOnce(calls[w])
        /\ Len(calls[w]) <= 3
        /\ ExtractionFailed(w) => calls[w] = <<"extract">>

\* a request that made its three calls and failed on the last one
C13_Witness ==
    \E w \in Workers :
        /\ pc[w] = "done" /\ response[w].status = 500
        /\ calls[w] = <<"extract", "tailor", "email">>

\* C14: no generation request stays in an LLM call for ever: a backend that
\* never answers makes the call fail and the request goes on to its end.
C14_NoCallBlocksForever ==
    \A w \in Workers : pc[w] # "blocked"

\* C15: a generation request whose job description is missing or empty is
\* answered with the client error, has issued no LLM call, and has left the
\* session store as it found it.
C15_MissingDescriptionRejected ==
    \A w \in Workers :
        (pc[w] = "done" /\ kind[w] = "generate" /\ jd[w] = "")
            => /\ response[w] =
                      Response(400, "error", "Job description required", None)
               /\ calls[w] = << >>
               /\ ~interfered[w] => sessionFile = fileAtStart[w]

\* an empty request rejected while the store holds an earlier generation
C15_Witness ==
    \E w \in Workers :
        /\ pc[w] = "done" /\ kind[w] = "generate" /\ jd[w] = ""
        /\ response[w].status = 400
        /\ ~interfered[w]
        /\ sessionFile.state = "complete"

\* ------------------------------------------------------------------------
\* The renderers: generate_pdf and generate_docx of generate_resume.py and
\* of app.py
\* A text is a sequence of characters; a label, a separator or a field
\* value whose characters play no part is written as one symbol.  A Python
\* str is [type "str", items <<text>>], a list of str is
\* [type "list", items <<text, ...>>].  A document is the sequence of its
\* paragraphs, each with its style and its displayed text.
\* ------------------------------------------------------------------------
P(style, text) ==
    [style |-> style, text |-> text]

Rendered(story) ==
    [raised |-> FALSE, exc |-> "", story |-> story]

\* d['key'] on a dict without the key
KeyError ==
    [raised |-> TRUE, exc |-> "KeyError", story |-> << >>]

\* iterating a value: a str yields its characters, a list its elements
Iter(v) ==
    IF v.type = "str"
    THEN [i \in 1..Len(v.items[1]) |-> <<v.items[1][i]>>]
    ELSE v.items

\* sep.join(texts)
RECURSIVE join(_, _)
join(sep, texts) ==
    IF texts = << >> THEN << >>
    ELSE IF Len(texts) = 1 THEN texts[1]
    ELSE texts[1] \o sep \o join(sep, Tail(texts))

\* ', '
CommaSpace ==
    <<",", " ">>

\* ' | ' between the parts of a line
Bar ==
    <<" | ">>

\* the [:4] of app.py
BulletCap ==
    4

\* the 2 of `len(str(s)) <= 2`
FragmentLen ==
    2

\* seq[:n]
Take(seq, n) ==
    SubSeq(seq, 1, IF Len(seq) < n THEN Len(seq) ELSE n)

\* generate_resume.py generate_pdf, lines 376-379
gen_pdf_skills_text(skills) ==
    IF skills.type = "list"
    THEN join(CommaSpace, skills.items)
    ELSE skills.items[1]

\* generate_resume.py generate_pdf: every field is read with .get and a
\* default, every heading is written, the points are written as they come
gen_generate_pdf(data) ==
    LET SkillsLine(entry) ==
            <<P("Body", entry.category \o <<": ">>
                        \o gen_pdf_skills_text(entry.value))>>
        AllSkillsLine(list) ==
            Concat([i \in 1..Len(list) |-> SkillsLine(list[i])])
        PointLine(point) ==
            <<P("Bullet", <<Bullet>> \o point)>>
        AllPointLine(list) ==
            Concat([i \in 1..Len(list) |-> PointLine(list[i])])
        Job(job) ==
            <<P("ExpTitle", Get(job, "title", << >>) \o Bar
                            \o Get(job, "dates", << >>)),
              P("Company", Get(job, "company", << >>) \o <<" - ">>
                           \o Get(job, "location", << >>))>>
            \o AllPointLine(Get(job, "points", << >>))
        AllJob(list) ==
            Concat([i \in 1..Len(list) |-> Job(list[i])])
    IN  Rendered(
            <<P("Name", Get(data, "name", << >>)),
              P("JobTitle", Get(data, "title", << >>)),
              P("Contact", Get(data, "email", << >>) \o Bar
                           \o Get(data, "phone", << >>) \o Bar
                           \o Get(data, "location", << >>)),
              P("Section", <<"PROFESSIONAL SUMMARY">>),
              P("Body", Get(data, "summary", << >>)),
              P("Section", <<"TECHNICAL SKILLS">>)>>
            \o AllSkillsLine(Get(data, "skills", << >>))
            \o <<P("Section", <<"PROFESSIONAL EXPERIENCE">>)>>
            \o AllJob(Get(data, "experience", << >>)))

\* mutant: the DOCX renderer without the fragment heuristic
gen_docx_skills_text_NoHeuristic(skills) ==
    IF skills.type = "list"
    THEN join(CommaSpace, skills.items)
    ELSE skills.items[1]

\* generate_resume.py generate_docx, lines 424-431
gen_docx_skills_text(skills) ==
    IF skills.type = "list"
    THEN IF /\ skills.items # << >>
            /\ \A i \in 1..Len(skills.items) :
                   Len(skills.items[i]) <= FragmentLen
         THEN join(<< >>, skills.items)
         ELSE join(CommaSpace, skills.items)
    ELSE skills.items[1]

\* generate_resume.py generate_docx: every field is read with d['key']
gen_generate_docx(data) ==
    LET SkillsLine(entry) ==
            <<P("Normal", entry.category \o <<": ">>
                          \o gen_docx_skills_text(entry.value))>>
        AllSkillsLine(list) ==
            Concat([i \in 1..Len(list) |-> SkillsLine(list[i])])
        PointLine(point) ==
            <<P("List Bullet", point)>>
        AllPointLine(list) ==
            Concat([i \in 1..Len(list) |-> PointLine(list[i])])
        Job(job) ==
            <<P("Normal", job["title"] \o Bar \o job["company"] \o Bar
                          \o job["dates"])>>
            \o AllPointLine(job["points"])
        AllJob(list) ==
            Concat([i \in 1..Len(list) |-> Job(list[i])])
    IN  IF \E k \in {"name", "title", "email", "phone", "location",
                     "summary", "skills", "experience"} : k \notin DOMAIN data
        THEN KeyError
        ELSE IF \E i \in 1..Len(data["experience"]) :
                    \E k \in {"title", "company", "dates", "points"} :
                        k \notin DOMAIN data["experience"][i]
        THEN KeyError
        ELSE Rendered(
                <<P("Title", data["name"]),
                  P("Normal", data["title"]),
                  P("Normal", data["email"] \o Bar \o data["phone"] \o Bar
                              \o data["location"]),
                  P("Heading 1", <<"Professional Summary">>),
                  P("Normal", data["summary"]),
                  P("Heading 1", <<"Technical Skills">>)>>
                \o AllSkillsLine(data["skills"])
                \o <<P("Heading 1", <<"Professional Experience">>)>>
                \o AllJob(data["experience"]))

\* app.py: ', '.join(skills), whatever skills is
app_skills_text(skills) ==
    join(CommaSpace, Iter(skills))

\* app.py generate_pdf: summary and skills only when truthy, the entry's
\* 'bullets' cut to four
app_generate_pdf(data) ==
    LET SkillsLine(entry) ==
            <<P("Normal", entry.category \o <<": ">>
                          \o app_skills_text(entry.value))>>
        AllSkillsLine(list) ==
            Concat([i \in 1..Len(list) |-> SkillsLine(list[i])])
        BulletLine(bullet) ==
            <<P("Normal", <<Bullet>> \o bullet)>>
        AllBulletLine(list) ==
            Concat([i \in 1..Len(list) |-> BulletLine(list[i])])
        Job(job) ==
            <<P("Normal", Get(job, "title", << >>) \o Bar
                          \o Get(job, "company", << >>)),
              P("Normal", Get(job, "dates", << >>) \o Bar
                          \o Get(job, "location", << >>))>>
            \o AllBulletLine(Take(Get(job, "bullets", << >>), BulletCap))
        AllJob(list) ==
            Concat([i \in 1..Len(list) |-> Job(list[i])])
    IN  Rendered(
            <<P("Name", Get(data, "name", << >>)),
              P("Normal", Get(data, "email", << >>) \o Bar
                          \o Get(data, "phone", << >>) \o Bar
                          \o Get(data, "location", << >>))>>
            \o (IF Get(data, "summary", << >>) # << >>
                THEN <<P("Heading2", <<"PROFESSIONAL SUMMARY">>),
                       P("Normal", data["summary"])>>
                ELSE << >>)
            \o (IF Get(data, "skills", << >>) # << >>
                THEN <<P("Heading2", <<"TECHNICAL SKILLS">>)>>
                     \o AllSkillsLine(data["skills"])
                ELSE << >>)
            \o <<P("Heading2", <<"PROFESSIONAL EXPERIENCE">>)>>
            \o AllJob(Get(data, "experience", << >>)))

\* app.py generate_docx
app_generate_docx(data) ==
    LET SkillsLine(entry) ==
            <<P("Normal", entry.category \o <<": ">>
                          \o app_skills_text(entry.value))>>
        AllSkillsLine(list) ==
            Concat([i \in 1..Len(list) |-> SkillsLine(list[i])])
        BulletLine(bullet) ==
            <<P("Normal", <<Bullet>> \o bullet)>>
        AllBulletLine(list) ==
            Concat([i \in 1..Len(list) |-> BulletLine(list[i])])
        Job(job) ==
            <<P("Normal", Get(job, "title", << >>) \o Bar
                          \o Get(job, "company", << >>)),
              P("Normal", Get(job, "dates", << >>) \o Bar
                          \o Get(job, "location", << >>))>>
            \o AllBulletLine(Take(Get(job, "bullets", << >>), BulletCap))
        AllJob(list) ==
            Concat([i \in 1..Len(list) |-> Job(list[i])])
    IN  Rendered(
            <<P("Title", Get(data, "name", << >>)),
              P("Normal", Get(data, "email", << >>) \o Bar
                          \o Get(data, "phone", << >>) \o Bar
                          \o Get(data, "location", << >>))>>
            \o (IF Get(data, "summary", << >>) # << >>
                THEN <<P("Heading 1", <<"Professional Summary">>),
                       P("Normal", data["summary"])>>
                ELSE << >>)
            \o (IF Get(data, "skills", << >>) # << >>
                THEN <<P("Heading 1", <<"Technical Skills">>)>>
                     \o AllSkillsLine(data["skills"])
                ELSE << >>)
            \o <<P("Heading 1", <<"Professional Experience">>)>>
            \o AllJob(Get(data, "experience", << >>)))

Renderers ==
    {"gen_pdf", "gen_docx", "app_pdf", "app_docx"}

\* main() of generate_resume.py calls its two renderers, download_resume
\* of app.py the one of the requested format
Render(renderer, data) ==
    CASE renderer = "gen_pdf"  -> gen_generate_pdf(data)
      [] renderer = "gen_docx" -> gen_generate_docx(data)
      [] renderer = "app_pdf"  -> app_generate_pdf(data)
      [] OTHER                 -> app_generate_docx(data)

\* the structured resume the tailoring prompt asks for
Fields ==
    {"name", "title", "email", "phone", "location", "summary", "skills",
     "experience"}

JobFields ==
    {"title", "company", "location", "dates", "points"}

MaxPoints == 6

Category ==
    <<"Languages">>

\* point i of an entry: a text of i characters
Points(n) ==
    [i \in 1..n |-> [k \in 1..i |-> "x"]]

PyStr(text) ==
    [type |-> "str", items |-> <<text>>]

PyList(texts) ==
    [type |-> "list", items |-> texts]

DefaultSkills ==
    PyList(<< <<"J", "a", "v", "a">>, <<"G", "o">> >>)

\* the shapes in which a skills value arrives
SkillValues ==
    { PyStr(<<"Q", "A", ",", " ", "C", "I">>),
      PyStr(<<"C">>),
      PyStr(<< >>),
      PyList(<< >>),
      PyList(<< <<"J">>, <<"a">>, <<"v">>, <<"a">> >>),
      PyList(<< <<"G", "o">>, <<"C">> >>),
      PyList(<< <<"S", "Q", "L">> >>),
      PyList(<< <<"G", "o">>, <<"S", "Q", "L">> >>),
      DefaultSkills }

\* the entry of the experience list, with the keys of jobhas
JobData(jobhas, n) ==
    [k \in jobhas |-> IF k = "points" THEN Points(n) ELSE <<"job", k>>]

\* the resume dict with the keys of has
ResumeData(has, jobhas, skills, n) ==
    [k \in has |->
        CASE k = "skills" -> <<[category |-> Category, value |-> skills]>>
          [] k = "experience" -> <<JobData(jobhas, n)>>
          [] OTHER -> <<"resume", k>>]

rn_data ==
    ResumeData(rn_has, rn_job_has, rn_skills, rn_npoints)

RnInit ==
    /\ rn_pc = "called"
    /\ rn_renderer \in Renderers
    /\ \/ /\ rn_has \in SUBSET Fields
          /\ rn_job_has \in SUBSET JobFields
          /\ rn_skills = DefaultSkills
          /\ rn_npoints = 2
       \/ /\ rn_has = Fields
          /\ rn_job_has = JobFields
          /\ rn_skills \in SkillValues
          /\ rn_npoints \in 0..MaxPoints
    /\ rn_out = NoStory
    /\ WebParked /\ ExParked /\ TsParked /\ LrParked

\* the renderer runs to its end or to the exception that leaves it
rn_return ==
    /\ rn_pc = "called"
    /\ rn_out' = Render(rn_renderer, rn_data)
    /\ rn_pc' = "returned"
    /\ UNCHANGED <<rn_renderer, rn_has, rn_job_has, rn_skills, rn_npoints,
                   webVars, exVars, tsVars, lrVars>>

RnNext ==
    rn_return

SpecRender ==
    RnInit /\ [][RnNext]_vars

IsPdf(renderer) ==
    renderer \in {"gen_pdf", "app_pdf"}

\* a paragraph that is a bullet line: bullet style, or the bullet glyph first
IsBulletLine(p) ==
    \/ p.style \in {"Bullet", "List Bullet"}
    \/ p.text # << >> /\ Head(p.text) = Bullet

BulletLines(story) ==
    Cardinality({i \in 1..Len(story) : IsBulletLine(story[i])})

HasPoints ==
    "experience" \in rn_has /\ "points" \in rn_job_has

\* C16: for an experience entry with n points the PDF renderer writes
\* min(n, 4) bullet lines and the DOCX renderer writes n bullet lines.
C16_BulletCap ==
    (rn_pc = "returned" /\ ~rn_out.raised /\ HasPoints)
        => BulletLines(rn_out.story) =
              IF IsPdf(rn_renderer) /\ rn_npoints > 4 THEN 4 ELSE rn_npoints

HasParagraph(story, text) ==
    \E i \in 1..Len(story) : story[i].text = text

\* a sequence of strings with an element of more than 2 characters
ProperList(skills) ==
    /\ skills.type = "list"
    /\ \E i \in 1..Len(skills.items) : Len(skills.items[i]) > 2

NoFieldAbsent ==
    rn_has = Fields /\ rn_job_has = JobFields

\* C17: each of the four renderers, given a resume with all its fields,
\* ends without an exception and shows a string skills value unchanged
\* behind '<Category>: ' and a proper sequence joined with ', '.
C17_SkillsBothShapes ==
    (rn_pc = "returned" /\ NoFieldAbsent
     /\ (rn_skills.type = "str" \/ ProperList(rn_skills)))
        => /\ ~rn_out.raised
           /\ HasParagraph(rn_out.story,
                  Category \o <<": ">>
                  \o (IF rn_skills.type = "str" THEN rn_skills.items[1]
                      ELSE join(CommaSpace, rn_skills.items)))

\* a non-empty sequence whose elements all have at most 2 characters
Fragments(skills) ==
    /\ skills.type = "list" /\ skills.items # << >>
    /\ \A i \in 1..Len(skills.items) : Len(skills.items[i]) <= 2

\* C18: of generate_resume.py's renderers, the DOCX one writes a sequence
\* of fragments concatenated and the PDF one writes it joined with ', ';
\* every other sequence is written joined with ', ' by both.
C18_FragmentHeuristic ==
    (rn_pc = "returned" /\ rn_renderer \in {"gen_pdf", "gen_docx"}
     /\ ~rn_out.raised /\ "skills" \in rn_has /\ rn_skills.type = "list")
        => HasParagraph(rn_out.story,
               Category \o <<": ">>
               \o (IF rn_renderer = "gen_docx" /\ Fragments(rn_skills)
                   THEN Concat(rn_skills.items)
                   ELSE join(CommaSpace, rn_skills.items)))

\* ['J','a','v','a'] written as 'Java' by the DOCX renderer
C18_Witness ==
    /\ rn_pc = "returned" /\ rn_renderer = "gen_docx" /\ ~rn_out.raised
    /\ rn_skills = PyList(<< <<"J">>, <<"a">>, <<"v">>, <<"a">> >>)
    /\ HasParagraph(rn_out.story,
                    <<"Languages", ": ", "J", "a", "v", "a">>)

\* the resume with every absent field present and empty
FilledData ==
    LET data == rn_data
        job == JobData(rn_job_has, rn_npoints)
        filledJob == [k \in JobFields |-> Get(job, k, << >>)]
    IN  [k \in Fields |->
            IF k = "experience" /\ k \in rn_has THEN <<filledJob>>
            ELSE Get(data, k, << >>)]

\* C19: with any subset of the fields absent, a renderer ends without an
\* exception and writes what it writes when the absent fields are empty.
C19_AbsentFieldsRenderEmpty ==
    (rn_pc = "returned" /\ rn_renderer \in {"gen_pdf", "gen_docx"})
        => /\ ~rn_out.raised
           /\ rn_out.story = Render(rn_renderer, FilledData).story

\* C20: the session record a download reads is absent or the complete
\* record written by one generation request, never a truncated or mixed
\* one.
C20_DownloadReadsWholeRecord ==
    \A w \in Workers :
        (pc[w] = "done" /\ kind[w] = "download")
            => fileAtStart[w].state \in {"absent", "complete"}

====
